---- MODULE Spec2Model ----
(***************************************************************************)
(* Model of pkg/virtualrouter/routes_manager.go: the routes manager of the *)
(* App Mesh controller.  It reconciles the routes of one virtual router    *)
(* (vr.Spec.Routes) against the routes the App Mesh API reports for it.    *)
(*                                                                         *)
(* Go values are modelled as follows.  A pointer (and a slice that may be  *)
(* nil) is a sequence of length 0 or 1: Nil is the nil pointer, Ref(x) a   *)
(* pointer to x.  A Go map is a function whose domain is its key set.  A   *)
(* struct is a record with the struct's field names.                       *)
(***************************************************************************)
EXTENDS Integers, Sequences, FiniteSets, TLC

VARIABLES
    remote,                       \* the routes App Mesh holds for the router: name -> Nil | Ref(RouteSpec)
    op,                           \* per caller: the routesManager method it is in
    pc,                           \* per caller: its position in that method
    routes,                       \* per caller: vr.Spec.Routes (nil for cleanup)
    sdkVR,                        \* per caller: sdkVR.Spec.Listeners, the argument of remove
    sdkRouteRefs,                 \* per caller: the result of listSDKRouteRefs
    unmatchedRoutes,              \* per caller: reconcile's routes still to create
    matchedRouteAndSDKRouteRefs,  \* per caller: reconcile's pairs still to describe/update
    unmatchedSDKRouteRefs,        \* per caller: reconcile's refs still to describe/delete
    taintedRefs,                  \* per caller: remove's refs still to delete
    sdkRoute,                     \* per caller: the RouteData findSDKRoute returned, Nil if none pending
    sdkRouteByName,               \* per caller: reconcile's result map under construction
    result,                       \* per caller: what the method returned
    calls,                        \* per caller: the App Mesh calls of the current invocation, in order
    clean,                        \* per caller: nobody else changed remote since the invocation started
    repeat,                       \* per caller: the invocation repeats a successful update unchanged
    retried                       \* per caller: the invocation repeats one that failed after changing remote

vars == <<remote, op, pc, routes, sdkVR, sdkRouteRefs, unmatchedRoutes,
          matchedRouteAndSDKRouteRefs, unmatchedSDKRouteRefs, taintedRefs, sdkRoute,
          sdkRouteByName, result, calls, clean, repeat, retried>>

(***************************************************************************)
(* Bounds of the model.                                                    *)
(***************************************************************************)
\* the longest vr.Spec.Routes a caller passes
MaxRoutes == 2
\* the longest sdkVR.Spec.Listeners a caller passes
MaxListeners == 2

\* the route names, in sorted order
NameList == <<"r1", "r2", "r3">>
AllNames == {NameList[i] : i \in DOMAIN NameList}
\* the names of the routes the router may hold
Names == {"r1", "r2"}
Ports == {80, 443}
Procs == {"p1", "p2"}

(***************************************************************************)
(* Pointers, slices and maps.                                              *)
(***************************************************************************)
Nil == <<>>
Ref(x) == <<x>>
Deref(ptr) == ptr[1]
\* len() of a slice that may be nil
SliceLen(s) == IF s = Nil THEN 0 ELSE Len(Deref(s))
Range(s) == {s[i] : i \in DOMAIN s}
\* a slip: the map is made anew at every insert
MapPutAnew(m, k, v) == [x \in {k} |-> v]
MapPut(m, k, v) == [x \in (DOMAIN m) \cup {k} |-> IF x = k THEN v ELSE m[x]]
\* sets.String.List(): the members in sorted order
List(S) == SelectSeq(NameList, LAMBDA n : n \in S)
\* the sequences over S of length at most n without a repeated element
DistinctSeqs(S, n) ==
    {s \in UNION {[1..k -> S] : k \in 0..n} : \A i, j \in DOMAIN s : i # j => s[i] # s[j]}

(***************************************************************************)
(* appmesh.PortProtocol values; the SDK's listener protocols use the same  *)
(* strings.                                                                *)
(***************************************************************************)
PortProtocolGRPC == "grpc"
PortProtocolHTTP == "http"
PortProtocolHTTP2 == "http2"
PortProtocolTCP == "tcp"
Protocols == {PortProtocolGRPC, PortProtocolHTTP, PortProtocolHTTP2, PortProtocolTCP}

(***************************************************************************)
(* appmesh.Route.  Each of the four variant fields is a pointer.  TCPRoute *)
(* holds Match as a pointer, the other three hold it as a struct; Port is  *)
(* a pointer in all four.                                                  *)
(***************************************************************************)
NoRoute(name) ==
    [Name |-> name, GRPCRoute |-> Nil, HTTPRoute |-> Nil, HTTP2Route |-> Nil, TCPRoute |-> Nil]
TCPRouteOf(name, match, target) ==
    [NoRoute(name) EXCEPT !.TCPRoute = Ref([Match |-> match, Target |-> target])]
GRPCRouteOf(name, port, retry, target) ==
    [NoRoute(name) EXCEPT !.GRPCRoute =
        Ref([Match |-> [Port |-> port], RetryPolicy |-> retry, Target |-> target])]
HTTP2RouteOf(name, port, retry, target) ==
    [NoRoute(name) EXCEPT !.HTTP2Route =
        Ref([Match |-> [Port |-> port], RetryPolicy |-> retry, Target |-> target])]
HTTPRouteOf(name, port, retry, target) ==
    [NoRoute(name) EXCEPT !.HTTPRoute =
        Ref([Match |-> [Port |-> port], RetryPolicy |-> retry, Target |-> target])]
RetryPolicyOf(events) == Ref([HTTPRetryEvents |-> events])

\* appmeshsdk.RouteRef: the mesh, owner and router are those of the one router modelled
RouteRefOf(name) == [RouteName |-> name]
\* appmeshsdk.VirtualRouterListener
ListenerOf(port, protocol) == [PortMapping |-> [Port |-> port, Protocol |-> protocol]]

(***************************************************************************)
(* matchRoutesAgainstSDKRouteRefs                                          *)
(***************************************************************************)
\* for _, route := range routes { routeByName[route.Name] = route }: the last one wins
routeByNameOf(rs) ==
    [n \in {rs[i].Name : i \in DOMAIN rs} |->
        rs[CHOOSE i \in DOMAIN rs :
            /\ rs[i].Name = n
            /\ \A j \in DOMAIN rs : rs[j].Name = n => j <= i]]
sdkRouteRefByNameOf(refs) ==
    [n \in {refs[i].RouteName : i \in DOMAIN refs} |->
        refs[CHOOSE i \in DOMAIN refs :
            /\ refs[i].RouteName = n
            /\ \A j \in DOMAIN refs : refs[j].RouteName = n => j <= i]]
\* append m[name] for each name of the sequence names
Collect(names, m) ==
    IF names = <<>> THEN <<>> ELSE [i \in 1..Len(names) |-> m[names[i]]]

\* a slip: the routes to create are not reduced by the routes that exist
matchRoutesWithoutDifference(rs, refs) ==
    LET routeByName == routeByNameOf(rs)
        sdkRouteRefByName == sdkRouteRefByNameOf(refs)
        routeNameSet == DOMAIN routeByName
        sdkRouteRefNameSet == DOMAIN sdkRouteRefByName
        matchedNameSet == routeNameSet \cap sdkRouteRefNameSet
        unmatchedRouteNameSet == routeNameSet
        unmatchedSDKRouteRefNameSet == sdkRouteRefNameSet \ routeNameSet
    IN  [matchedRouteAndSDKRouteRef |->
            Collect(List(matchedNameSet),
                    [n \in matchedNameSet |->
                        [route |-> routeByName[n], sdkRouteRef |-> sdkRouteRefByName[n]]]),
         unmatchedRoutes |->
            Collect(List(unmatchedRouteNameSet), routeByName),
         unmatchedSDKRouteRefs |->
            Collect(List(unmatchedSDKRouteRefNameSet), sdkRouteRefByName)]

\* a slip: the refs to delete are not reduced by the refs that have a route
matchRoutesKeepMatchedRefs(rs, refs) ==
    LET routeByName == routeByNameOf(rs)
        sdkRouteRefByName == sdkRouteRefByNameOf(refs)
        routeNameSet == DOMAIN routeByName
        sdkRouteRefNameSet == DOMAIN sdkRouteRefByName
        matchedNameSet == routeNameSet \cap sdkRouteRefNameSet
        unmatchedRouteNameSet == routeNameSet \ sdkRouteRefNameSet
        unmatchedSDKRouteRefNameSet == sdkRouteRefNameSet
    IN  [matchedRouteAndSDKRouteRef |->
            Collect(List(matchedNameSet),
                    [n \in matchedNameSet |->
                        [route |-> routeByName[n], sdkRouteRef |-> sdkRouteRefByName[n]]]),
         unmatchedRoutes |->
            Collect(List(unmatchedRouteNameSet), routeByName),
         unmatchedSDKRouteRefs |->
            Collect(List(unmatchedSDKRouteRefNameSet), sdkRouteRefByName)]

matchRoutesAgainstSDKRouteRefs(rs, refs) ==
    LET routeByName == routeByNameOf(rs)
        sdkRouteRefByName == sdkRouteRefByNameOf(refs)
        routeNameSet == DOMAIN routeByName
        sdkRouteRefNameSet == DOMAIN sdkRouteRefByName
        matchedNameSet == routeNameSet \cap sdkRouteRefNameSet
        unmatchedRouteNameSet == routeNameSet \ sdkRouteRefNameSet
        unmatchedSDKRouteRefNameSet == sdkRouteRefNameSet \ routeNameSet
    IN  [matchedRouteAndSDKRouteRef |->
            Collect(List(matchedNameSet),
                    [n \in matchedNameSet |->
                        [route |-> routeByName[n], sdkRouteRef |-> sdkRouteRefByName[n]]]),
         unmatchedRoutes |->
            Collect(List(unmatchedRouteNameSet), routeByName),
         unmatchedSDKRouteRefs |->
            Collect(List(unmatchedSDKRouteRefNameSet), sdkRouteRefByName)]

(***************************************************************************)
(* taintedSDKRouteRefs                                                     *)
(***************************************************************************)
\* sdkListenerByPort: the last listener of a port wins
sdkListenerByPortOf(listeners) ==
    [port \in {listeners[i].PortMapping.Port : i \in DOMAIN listeners} |->
        listeners[CHOOSE i \in DOMAIN listeners :
            /\ listeners[i].PortMapping.Port = port
            /\ \A j \in DOMAIN listeners : listeners[j].PortMapping.Port = port => j <= i
        ].PortMapping.Protocol]
\* sdkListenerByPort[port]: the zero value "" for a port that is no key
ListenerProtocol(sdkListenerByPort, port) ==
    IF port \in DOMAIN sdkListenerByPort THEN sdkListenerByPort[port] ELSE ""

\* a slip: the HTTP2 branch compares with the HTTP protocol
routeIsTaintedHTTP2AsHTTP(route, sdkListenerByPort) ==
    IF /\ route.TCPRoute # Nil
       /\ Deref(route.TCPRoute).Match # Nil
       /\ Deref(Deref(route.TCPRoute).Match).Port # Nil
       /\ ListenerProtocol(sdkListenerByPort,
                           Deref(Deref(Deref(route.TCPRoute).Match).Port)) # PortProtocolTCP
    THEN TRUE
    ELSE IF /\ route.GRPCRoute # Nil
            /\ Deref(route.GRPCRoute).Match.Port # Nil
            /\ ListenerProtocol(sdkListenerByPort,
                                Deref(Deref(route.GRPCRoute).Match.Port)) # PortProtocolGRPC
    THEN TRUE
    ELSE IF /\ route.HTTP2Route # Nil
            /\ Deref(route.HTTP2Route).Match.Port # Nil
            /\ ListenerProtocol(sdkListenerByPort,
                                Deref(Deref(route.HTTP2Route).Match.Port)) # PortProtocolHTTP
    THEN TRUE
    ELSE IF /\ route.HTTPRoute # Nil
            /\ Deref(route.HTTPRoute).Match.Port # Nil
            /\ ListenerProtocol(sdkListenerByPort,
                                Deref(Deref(route.HTTPRoute).Match.Port)) # PortProtocolHTTP
    THEN TRUE
    ELSE FALSE

\* a slip: the lookup of the listener with the comma-ok form, a port without a
\* listener is no conflict
routeIsTaintedOnlyIfBound(route, sdkListenerByPort) ==
    LET conflict(port, protocol) ==
            /\ Deref(port) \in DOMAIN sdkListenerByPort
            /\ sdkListenerByPort[Deref(port)] # protocol
    IN  IF /\ route.TCPRoute # Nil
           /\ Deref(route.TCPRoute).Match # Nil
           /\ Deref(Deref(route.TCPRoute).Match).Port # Nil
           /\ conflict(Deref(Deref(route.TCPRoute).Match).Port, PortProtocolTCP)
        THEN TRUE
        ELSE IF /\ route.GRPCRoute # Nil
                /\ Deref(route.GRPCRoute).Match.Port # Nil
                /\ conflict(Deref(route.GRPCRoute).Match.Port, PortProtocolGRPC)
        THEN TRUE
        ELSE IF /\ route.HTTP2Route # Nil
                /\ Deref(route.HTTP2Route).Match.Port # Nil
                /\ conflict(Deref(route.HTTP2Route).Match.Port, PortProtocolHTTP2)
        THEN TRUE
        ELSE IF /\ route.HTTPRoute # Nil
                /\ Deref(route.HTTPRoute).Match.Port # Nil
                /\ conflict(Deref(route.HTTPRoute).Match.Port, PortProtocolHTTP)
        THEN TRUE
        ELSE FALSE

\* the if / else-if chain of the loop over matchedNameSet: whether it inserts route.Name
routeIsTainted(route, sdkListenerByPort) ==
    IF /\ route.TCPRoute # Nil
       /\ Deref(route.TCPRoute).Match # Nil
       /\ Deref(Deref(route.TCPRoute).Match).Port # Nil
       /\ ListenerProtocol(sdkListenerByPort,
                           Deref(Deref(Deref(route.TCPRoute).Match).Port)) # PortProtocolTCP
    THEN TRUE
    ELSE IF /\ route.GRPCRoute # Nil
            /\ Deref(route.GRPCRoute).Match.Port # Nil
            /\ ListenerProtocol(sdkListenerByPort,
                                Deref(Deref(route.GRPCRoute).Match.Port)) # PortProtocolGRPC
    THEN TRUE
    ELSE IF /\ route.HTTP2Route # Nil
            /\ Deref(route.HTTP2Route).Match.Port # Nil
            /\ ListenerProtocol(sdkListenerByPort,
                                Deref(Deref(route.HTTP2Route).Match.Port)) # PortProtocolHTTP2
    THEN TRUE
    ELSE IF /\ route.HTTPRoute # Nil
            /\ Deref(route.HTTPRoute).Match.Port # Nil
            /\ ListenerProtocol(sdkListenerByPort,
                                Deref(Deref(route.HTTPRoute).Match.Port)) # PortProtocolHTTP
    THEN TRUE
    ELSE FALSE

\* a slip: only the refs without a route are returned, the matched routes are not looked at
taintedOnlyUnmatched(rs, listeners, refs) ==
    LET routeByName == routeByNameOf(rs)
        sdkRouteRefByName == sdkRouteRefByNameOf(refs)
        unmatchedSDKRouteRefNameSet == (DOMAIN sdkRouteRefByName) \ (DOMAIN routeByName)
    IN  Collect(List(unmatchedSDKRouteRefNameSet), sdkRouteRefByName)

taintedSDKRouteRefs(rs, listeners, refs) ==
    LET routeByName == routeByNameOf(rs)
        sdkRouteRefByName == sdkRouteRefByNameOf(refs)
        sdkListenerByPort == sdkListenerByPortOf(listeners)
        routeNameSet == DOMAIN routeByName
        sdkRouteRefNameSet == DOMAIN sdkRouteRefByName
        matchedNameSet == routeNameSet \cap sdkRouteRefNameSet
        unmatchedSDKRouteRefNameSet ==
            (sdkRouteRefNameSet \ routeNameSet)
            \cup {routeByName[n].Name : n \in
                    {m \in matchedNameSet : routeIsTainted(routeByName[m], sdkListenerByPort)}}
    IN  Collect(List(unmatchedSDKRouteRefNameSet), sdkRouteRefByName)

(***************************************************************************)
(* BuildSDKRouteSpec and the comparison of updateSDKRoute                  *)
(***************************************************************************)
\* vnByKey: the virtual nodes the caller resolved, key -> AWS name
vnByKey == [k \in {"vn-a"} |-> "vn-a_default"]

\* conversions.Convert_CRD_Route_To_SDK_RouteSpec with the virtual node reference
\* conversion: a field by field copy of the variant that is set, the backend
\* reference replaced by the AWS name of the node; an error for a node that is
\* not in the table
Convert_CRD_Route_To_SDK_RouteSpec(route, byKey) ==
    LET targets == {Deref(v).Target :
                        v \in {route.GRPCRoute, route.HTTPRoute, route.HTTP2Route, route.TCPRoute}
                              \ {Nil}}
        http(v) == IF v = Nil THEN Nil
                   ELSE Ref([Match |-> Deref(v).Match,
                             RetryPolicy |-> Deref(v).RetryPolicy,
                             VirtualNode |-> byKey[Deref(v).Target]])
        tcp(v) == IF v = Nil THEN Nil
                  ELSE Ref([Match |-> Deref(v).Match,
                            VirtualNode |-> byKey[Deref(v).Target]])
    IN  IF \E t \in targets : t \notin DOMAIN byKey
        THEN [err |-> "ConversionError", spec |-> Nil]
        ELSE [err |-> "",
              spec |-> Ref([GrpcRoute |-> http(route.GRPCRoute),
                            HttpRoute |-> http(route.HTTPRoute),
                            Http2Route |-> http(route.HTTP2Route),
                            TcpRoute |-> tcp(route.TCPRoute)])]

BuildSDKRouteSpec(route, byKey) == Convert_CRD_Route_To_SDK_RouteSpec(route, byKey)

\* cmp.Equal of two slices: under cmpopts.EquateEmpty two slices of length 0 are
\* equal, nil or not; without the option nil differs from empty
EqualSlices(a, b, equateEmpty) ==
    \/ equateEmpty /\ SliceLen(a) = 0 /\ SliceLen(b) = 0
    \/ a = b
\* a slip: a nil *HttpRetryPolicy equals a policy whose list of events is empty
EqualRetryPolicyNilAsEmpty(a, b, equateEmpty) ==
    LET events(x) == IF x = Nil THEN Nil ELSE Deref(x).HTTPRetryEvents
    IN  EqualSlices(events(a), events(b), equateEmpty)
\* cmp.Equal of two *HttpRetryPolicy: the pointers are both nil, or neither is and
\* the structs are equal
EqualRetryPolicy(a, b, equateEmpty) ==
    \/ a = Nil /\ b = Nil
    \/ /\ a # Nil
       /\ b # Nil
       /\ EqualSlices(Deref(a).HTTPRetryEvents, Deref(b).HTTPRetryEvents, equateEmpty)
EqualHttpRoute(a, b, equateEmpty) ==
    \/ a = Nil /\ b = Nil
    \/ /\ a # Nil
       /\ b # Nil
       /\ Deref(a).Match = Deref(b).Match
       /\ Deref(a).VirtualNode = Deref(b).VirtualNode
       /\ EqualRetryPolicy(Deref(a).RetryPolicy, Deref(b).RetryPolicy, equateEmpty)
EqualRouteSpec(x, y, equateEmpty) ==
    /\ EqualHttpRoute(x.GrpcRoute, y.GrpcRoute, equateEmpty)
    /\ EqualHttpRoute(x.HttpRoute, y.HttpRoute, equateEmpty)
    /\ EqualHttpRoute(x.Http2Route, y.Http2Route, equateEmpty)
    /\ x.TcpRoute = y.TcpRoute
\* a slip: the comparison without cmpopts.EquateEmpty()
cmpEqualStrict(desiredSDKRouteSpec, actualSDKRouteSpec) ==
    EqualRouteSpec(desiredSDKRouteSpec, actualSDKRouteSpec, FALSE)
\* a slip: the desired spec compared with itself
cmpEqualSelf(desiredSDKRouteSpec, actualSDKRouteSpec) ==
    EqualRouteSpec(desiredSDKRouteSpec, desiredSDKRouteSpec, TRUE)
\* cmp.Equal(desiredSDKRouteSpec, actualSDKRouteSpec, cmpopts.EquateEmpty())
cmpEqual(desiredSDKRouteSpec, actualSDKRouteSpec) ==
    EqualRouteSpec(desiredSDKRouteSpec, actualSDKRouteSpec, TRUE)

(***************************************************************************)
(* The App Mesh API of the one router, as the routes manager sees it.  A   *)
(* call answers with an error, or succeeds and acts on remote.  Any call   *)
(* may fail with RemoteErr (throttling, a lost connection) and then has no *)
(* effect.                                                                 *)
(***************************************************************************)
RemoteErr == "TooManyRequestsException"
NotFoundException == "NotFoundException"
ConflictException == "ConflictException"
RouteNotFound == "route not found"

\* appmeshsdk.RouteData
RouteDataOf(name, spec) == [RouteName |-> name, Spec |-> spec]

\* the service may answer an empty list as a missing field
omitEmpty(v) ==
    IF v = Nil THEN Nil
    ELSE Ref([Deref(v) EXCEPT !.RetryPolicy =
                IF @ # Nil /\ SliceLen(Deref(@).HTTPRetryEvents) = 0
                THEN Ref([Deref(@) EXCEPT !.HTTPRetryEvents = Nil])
                ELSE @])
StoredSpecs(spec) ==
    {spec, [spec EXCEPT !.GrpcRoute = omitEmpty(@),
                        !.HttpRoute = omitEmpty(@),
                        !.Http2Route = omitEmpty(@)]}

\* ListRoutesPagesWithContext: the names of the routes held, all pages appended (in
\* sorted order here: the callers put the refs in a map and read it back sorted)
ListRoutesResponses ==
    {[err |-> RemoteErr, Routes |-> <<>>],
     [err |-> "",
      Routes |-> Collect(List({n \in Names : remote[n] # Nil}), [n \in Names |-> RouteRefOf(n)])]}
DescribeRouteResponses(name) ==
    {[err |-> RemoteErr, Route |-> Nil]}
    \cup IF remote[name] = Nil
         THEN {[err |-> NotFoundException, Route |-> Nil]}
         ELSE {[err |-> "", Route |-> Ref(RouteDataOf(name, Deref(remote[name])))]}
CreateRouteResponses(name, spec) ==
    {[err |-> RemoteErr, Route |-> Nil]}
    \cup IF remote[name] # Nil
         THEN {[err |-> ConflictException, Route |-> Nil]}
         ELSE {[err |-> "", Route |-> Ref(RouteDataOf(name, s))] : s \in StoredSpecs(spec)}
UpdateRouteResponses(name, spec) ==
    {[err |-> RemoteErr, Route |-> Nil]}
    \cup IF remote[name] = Nil
         THEN {[err |-> NotFoundException, Route |-> Nil]}
         ELSE {[err |-> "", Route |-> Ref(RouteDataOf(name, s))] : s \in StoredSpecs(spec)}
DeleteRouteResponses(name) ==
    {[err |-> RemoteErr],
     [err |-> IF remote[name] = Nil THEN NotFoundException ELSE ""]}

\* one entry of calls
CallOf(api, name, err) == [api |-> api, name |-> name, err |-> err]

(***************************************************************************)
(* The methods of defaultRoutesManager.  A method runs from one App Mesh   *)
(* call to the next in one step; between two steps somebody else may       *)
(* change the routes of the router.                                        *)
(***************************************************************************)
Upd(f, p, v) == [f EXCEPT ![p] = v]
NoResult == [err |-> "", routes |-> Nil]
Ops == {"create", "update", "cleanup", "remove"}

\* a slip: reconcile without its loop over unmatchedSDKRouteRefs
phaseWithoutDelete(ur, mt, us) ==
    IF ur # <<>> THEN "createSDKRoute"
    ELSE IF mt # <<>> THEN "findSDKRouteMatched"
    ELSE "done"
\* a slip: reconcile with its loop over unmatchedSDKRouteRefs first
phaseDeleteFirst(ur, mt, us) ==
    IF us # <<>> THEN "findSDKRouteUnmatched"
    ELSE IF ur # <<>> THEN "createSDKRoute"
    ELSE IF mt # <<>> THEN "findSDKRouteMatched"
    ELSE "done"
\* the loop reconcile is in, given what is left of its three slices
phase(ur, mt, us) ==
    IF ur # <<>> THEN "createSDKRoute"
    ELSE IF mt # <<>> THEN "findSDKRouteMatched"
    ELSE IF us # <<>> THEN "findSDKRouteUnmatched"
    ELSE "done"

\* a slip: return sdkRouteByName, err
returnedPartial(o, e, byName) ==
    [err |-> e, routes |-> IF o \in {"create", "update"} THEN Ref(byName) ELSE Nil]
\* what a method hands back: create and update return reconcile's map and error,
\* cleanup drops the map, remove has none; an error comes with a nil map
returned(o, e, byName) ==
    [err |-> e, routes |-> IF e = "" /\ o \in {"create", "update"} THEN Ref(byName) ELSE Nil]

Return(p, o, e, byName) ==
    /\ pc' = Upd(pc, p, "done")
    /\ result' = Upd(result, p, returned(o, e, byName))

SetLocals(p, ur, mt, us, sr, byName) ==
    /\ unmatchedRoutes' = Upd(unmatchedRoutes, p, ur)
    /\ matchedRouteAndSDKRouteRefs' = Upd(matchedRouteAndSDKRouteRefs, p, mt)
    /\ unmatchedSDKRouteRefs' = Upd(unmatchedSDKRouteRefs, p, us)
    /\ sdkRoute' = Upd(sdkRoute, p, sr)
    /\ sdkRouteByName' = Upd(sdkRouteByName, p, byName)

\* the head of the next loop of reconcile, or its final return
Continue(p, o, ur, mt, us, byName) ==
    /\ SetLocals(p, ur, mt, us, Nil, byName)
    /\ IF phase(ur, mt, us) = "done"
       THEN Return(p, o, "", byName)
       ELSE /\ pc' = Upd(pc, p, phase(ur, mt, us))
            /\ result' = Upd(result, p, NoResult)

\* return nil, err out of reconcile (or err out of remove): the locals are dropped as they are
Abort(p, e) ==
    /\ Return(p, op[p], e, sdkRouteByName[p])
    /\ UNCHANGED <<unmatchedRoutes, matchedRouteAndSDKRouteRefs, unmatchedSDKRouteRefs,
                   sdkRoute, sdkRouteByName>>

Called(p, api, name, err) == calls' = Upd(calls, p, Append(calls[p], CallOf(api, name, err)))

\* p changed remote: every other caller under way has seen somebody else act
Mutated(p) == clean' = [q \in Procs |-> IF q = p \/ pc[q] = "idle" THEN clean[q] ELSE FALSE]

\* a slip that is none in the code: a lock on the router, a caller enters only while
\* no other caller is under way
BeginSerialized(p, o, rs, ls) ==
    /\ \A q \in Procs \ {p} : pc[q] \in {"idle", "done"}
    /\ \/ pc[p] = "idle"
       \/ pc[p] = "done" /\ op[p] = o /\ routes[p] = rs /\ sdkVR[p] = ls
    /\ op' = Upd(op, p, o)
    /\ routes' = Upd(routes, p, rs)
    /\ sdkVR' = Upd(sdkVR, p, ls)
    /\ sdkRouteRefs' = Upd(sdkRouteRefs, p, <<>>)
    /\ taintedRefs' = Upd(taintedRefs, p, <<>>)
    /\ calls' = Upd(calls, p, <<>>)
    /\ clean' = Upd(clean, p, TRUE)
    /\ repeat' = Upd(repeat, p, /\ o = "update"
                                /\ op[p] = "update"
                                /\ pc[p] = "done"
                                /\ result[p].err = ""
                                /\ clean[p]
                                /\ rs = routes[p])
    /\ retried' = Upd(retried, p,
                      /\ pc[p] = "done"
                      /\ result[p].err # ""
                      /\ \/ retried[p]
                         \/ \E i \in DOMAIN calls[p] :
                                /\ calls[p][i].api \in {"CreateRoute", "UpdateRoute", "DeleteRoute"}
                                /\ calls[p][i].err = "")
    /\ UNCHANGED remote

\* a caller enters method o with the routes rs and the listeners ls: a first call,
\* or the same call again after it returned (the controller requeues the router)
Begin(p, o, rs, ls) ==
    /\ \/ pc[p] = "idle"
       \/ pc[p] = "done" /\ op[p] = o /\ routes[p] = rs /\ sdkVR[p] = ls
    /\ op' = Upd(op, p, o)
    /\ routes' = Upd(routes, p, rs)
    /\ sdkVR' = Upd(sdkVR, p, ls)
    /\ sdkRouteRefs' = Upd(sdkRouteRefs, p, <<>>)
    /\ taintedRefs' = Upd(taintedRefs, p, <<>>)
    /\ calls' = Upd(calls, p, <<>>)
    /\ clean' = Upd(clean, p, TRUE)
    /\ repeat' = Upd(repeat, p, /\ o = "update"
                                /\ op[p] = "update"
                                /\ pc[p] = "done"
                                /\ result[p].err = ""
                                /\ clean[p]
                                /\ rs = routes[p])
    /\ retried' = Upd(retried, p,
                      /\ pc[p] = "done"
                      /\ result[p].err # ""
                      /\ \/ retried[p]
                         \/ \E i \in DOMAIN calls[p] :
                                /\ calls[p][i].api \in {"CreateRoute", "UpdateRoute", "DeleteRoute"}
                                /\ calls[p][i].err = "")
    /\ UNCHANGED remote

\* reconcile up to its first App Mesh call
reconcile(p, o, rs, refs) ==
    LET m == matchRoutesAgainstSDKRouteRefs(rs, refs)
    IN  Continue(p, o, m.unmatchedRoutes, m.matchedRouteAndSDKRouteRef,
                 m.unmatchedSDKRouteRefs, <<>>)

\* update, cleanup and remove start with listSDKRouteRefs
Listing(p) ==
    /\ SetLocals(p, <<>>, <<>>, <<>>, Nil, <<>>)
    /\ pc' = Upd(pc, p, "listSDKRouteRefs")
    /\ result' = Upd(result, p, NoResult)

\* a slip: create lists the routes first, as update does
createWithListing(p, rs) ==
    /\ Begin(p, "create", rs, <<>>)
    /\ Listing(p)

create(p, rs) ==
    /\ Begin(p, "create", rs, <<>>)
    /\ reconcile(p, "create", rs, <<>>)

\* a slip: update goes into reconcile with no refs, as create does
updateWithoutListing(p, rs) ==
    /\ Begin(p, "update", rs, <<>>)
    /\ reconcile(p, "update", rs, <<>>)

update(p, rs) ==
    /\ Begin(p, "update", rs, <<>>)
    /\ Listing(p)

cleanup(p) ==
    /\ Begin(p, "cleanup", <<>>, <<>>)
    /\ Listing(p)

remove(p, rs, ls) ==
    /\ Begin(p, "remove", rs, ls)
    /\ Listing(p)

\* listSDKRouteRefs returns: update and cleanup go on into reconcile, remove
\* computes the tainted refs
listSDKRouteRefs(p) ==
    /\ pc[p] = "listSDKRouteRefs"
    /\ \E resp \in ListRoutesResponses :
        /\ Called(p, "ListRoutes", "", resp.err)
        /\ IF resp.err # ""
           THEN /\ Abort(p, resp.err)
                /\ UNCHANGED <<sdkRouteRefs, taintedRefs>>
           ELSE /\ sdkRouteRefs' = Upd(sdkRouteRefs, p, resp.Routes)
                /\ IF op[p] = "remove"
                   THEN LET tainted == taintedSDKRouteRefs(routes[p], sdkVR[p], resp.Routes)
                        IN  /\ taintedRefs' = Upd(taintedRefs, p, tainted)
                            /\ IF tainted = <<>>
                               THEN Return(p, "remove", "", <<>>)
                               ELSE /\ pc' = Upd(pc, p, "deleteSDKRouteByRef")
                                    /\ UNCHANGED result
                            /\ UNCHANGED <<unmatchedRoutes, matchedRouteAndSDKRouteRefs,
                                           unmatchedSDKRouteRefs, sdkRoute, sdkRouteByName>>
                   ELSE /\ reconcile(p, op[p], routes[p], resp.Routes)
                        /\ UNCHANGED taintedRefs
    /\ UNCHANGED <<remote, op, routes, sdkVR, clean, repeat, retried>>

\* the loop over unmatchedRoutes: createSDKRoute
createSDKRoute(p) ==
    /\ pc[p] = "createSDKRoute"
    /\ LET route == Head(unmatchedRoutes[p])
           built == BuildSDKRouteSpec(route, vnByKey)
       IN  IF built.err # ""
           THEN /\ Abort(p, built.err)
                /\ UNCHANGED <<remote, calls, clean>>
           ELSE \E resp \in CreateRouteResponses(route.Name, Deref(built.spec)) :
                    /\ Called(p, "CreateRoute", route.Name, resp.err)
                    /\ IF resp.err # ""
                       THEN /\ Abort(p, resp.err)
                            /\ UNCHANGED <<remote, clean>>
                       ELSE /\ remote' = [remote EXCEPT ![route.Name] =
                                            Ref(Deref(resp.Route).Spec)]
                            /\ Mutated(p)
                            /\ Continue(p, op[p], Tail(unmatchedRoutes[p]),
                                        matchedRouteAndSDKRouteRefs[p],
                                        unmatchedSDKRouteRefs[p],
                                        MapPut(sdkRouteByName[p], route.Name,
                                               Deref(resp.Route)))
    /\ UNCHANGED <<op, routes, sdkVR, sdkRouteRefs, taintedRefs, repeat, retried>>

\* findSDKRoute: a NotFoundException of DescribeRoute is a nil route and no error
findSDKRoute(resp) ==
    IF resp.err = NotFoundException THEN [err |-> "", Route |-> Nil]
    ELSE IF resp.err # "" THEN [err |-> resp.err, Route |-> Nil]
    ELSE [err |-> "", Route |-> resp.Route]

\* a slip: a matched route that DescribeRoute reports missing is handed to the
\* create loop instead of failing the call
findSDKRouteMatchedRecreate(p) ==
    /\ pc[p] = "findSDKRouteMatched"
    /\ LET pair == Head(matchedRouteAndSDKRouteRefs[p])
           name == pair.sdkRouteRef.RouteName
           built == BuildSDKRouteSpec(pair.route, vnByKey)
       IN  \E resp \in DescribeRouteResponses(name) :
            LET found == findSDKRoute(resp)
            IN  /\ Called(p, "DescribeRoute", name, resp.err)
                /\ IF found.err # "" THEN Abort(p, found.err)
                   ELSE IF found.Route = Nil
                   THEN Continue(p, op[p], <<pair.route>>,
                                 Tail(matchedRouteAndSDKRouteRefs[p]),
                                 unmatchedSDKRouteRefs[p], sdkRouteByName[p])
                   ELSE IF built.err # "" THEN Abort(p, built.err)
                   ELSE IF cmpEqual(Deref(built.spec), Deref(found.Route).Spec)
                   THEN Continue(p, op[p], unmatchedRoutes[p],
                                 Tail(matchedRouteAndSDKRouteRefs[p]),
                                 unmatchedSDKRouteRefs[p],
                                 MapPut(sdkRouteByName[p], pair.route.Name,
                                        Deref(found.Route)))
                   ELSE /\ pc' = Upd(pc, p, "updateSDKRoute")
                        /\ sdkRoute' = Upd(sdkRoute, p, found.Route)
                        /\ UNCHANGED <<result, unmatchedRoutes, matchedRouteAndSDKRouteRefs,
                                       unmatchedSDKRouteRefs, sdkRouteByName>>
    /\ UNCHANGED <<remote, op, routes, sdkVR, sdkRouteRefs, taintedRefs, clean, repeat, retried>>

\* the loop over matchedRouteAndSDKRouteRefs: findSDKRoute, then updateSDKRoute
\* up to its comparison
findSDKRouteMatched(p) ==
    /\ pc[p] = "findSDKRouteMatched"
    /\ LET pair == Head(matchedRouteAndSDKRouteRefs[p])
           name == pair.sdkRouteRef.RouteName
           built == BuildSDKRouteSpec(pair.route, vnByKey)
       IN  \E resp \in DescribeRouteResponses(name) :
            LET found == findSDKRoute(resp)
            IN  /\ Called(p, "DescribeRoute", name, resp.err)
                /\ IF found.err # "" THEN Abort(p, found.err)
                   ELSE IF found.Route = Nil THEN Abort(p, RouteNotFound)
                   ELSE IF built.err # "" THEN Abort(p, built.err)
                   ELSE IF cmpEqual(Deref(built.spec), Deref(found.Route).Spec)
                   THEN Continue(p, op[p], unmatchedRoutes[p],
                                 Tail(matchedRouteAndSDKRouteRefs[p]),
                                 unmatchedSDKRouteRefs[p],
                                 MapPut(sdkRouteByName[p], pair.route.Name,
                                        Deref(found.Route)))
                   ELSE /\ pc' = Upd(pc, p, "updateSDKRoute")
                        /\ sdkRoute' = Upd(sdkRoute, p, found.Route)
                        /\ UNCHANGED <<result, unmatchedRoutes, matchedRouteAndSDKRouteRefs,
                                       unmatchedSDKRouteRefs, sdkRouteByName>>
    /\ UNCHANGED <<remote, op, routes, sdkVR, sdkRouteRefs, taintedRefs, clean, repeat, retried>>

\* updateSDKRoute from its UpdateRoute call on
updateSDKRoute(p) ==
    /\ pc[p] = "updateSDKRoute"
    /\ LET pair == Head(matchedRouteAndSDKRouteRefs[p])
           name == Deref(sdkRoute[p]).RouteName
           built == BuildSDKRouteSpec(pair.route, vnByKey)
       IN  \E resp \in UpdateRouteResponses(name, Deref(built.spec)) :
            /\ Called(p, "UpdateRoute", name, resp.err)
            /\ IF resp.err # ""
               THEN /\ Abort(p, resp.err)
                    /\ UNCHANGED <<remote, clean>>
               ELSE /\ remote' = [remote EXCEPT ![name] = Ref(Deref(resp.Route).Spec)]
                    /\ Mutated(p)
                    /\ Continue(p, op[p], unmatchedRoutes[p],
                                Tail(matchedRouteAndSDKRouteRefs[p]),
                                unmatchedSDKRouteRefs[p],
                                MapPut(sdkRouteByName[p], pair.route.Name,
                                       Deref(resp.Route)))
    /\ UNCHANGED <<op, routes, sdkVR, sdkRouteRefs, taintedRefs, repeat, retried>>

\* a slip that is none in the code: a ref whose route DescribeRoute reports missing
\* is passed over, the loop goes on with the next ref
findSDKRouteUnmatchedSkip(p) ==
    /\ pc[p] = "findSDKRouteUnmatched"
    /\ LET name == Head(unmatchedSDKRouteRefs[p]).RouteName
       IN  \E resp \in DescribeRouteResponses(name) :
            LET found == findSDKRoute(resp)
            IN  /\ Called(p, "DescribeRoute", name, resp.err)
                /\ IF found.err # "" THEN Abort(p, found.err)
                   ELSE IF found.Route = Nil
                   THEN Continue(p, op[p], unmatchedRoutes[p],
                                 matchedRouteAndSDKRouteRefs[p],
                                 Tail(unmatchedSDKRouteRefs[p]), sdkRouteByName[p])
                   ELSE /\ pc' = Upd(pc, p, "deleteSDKRoute")
                        /\ sdkRoute' = Upd(sdkRoute, p, found.Route)
                        /\ UNCHANGED <<result, unmatchedRoutes, matchedRouteAndSDKRouteRefs,
                                       unmatchedSDKRouteRefs, sdkRouteByName>>
    /\ UNCHANGED <<remote, op, routes, sdkVR, sdkRouteRefs, taintedRefs, clean, repeat,
                   retried>>

\* the loop over unmatchedSDKRouteRefs: findSDKRoute
findSDKRouteUnmatched(p) ==
    /\ pc[p] = "findSDKRouteUnmatched"
    /\ LET name == Head(unmatchedSDKRouteRefs[p]).RouteName
       IN  \E resp \in DescribeRouteResponses(name) :
            LET found == findSDKRoute(resp)
            IN  /\ Called(p, "DescribeRoute", name, resp.err)
                /\ IF found.err # "" THEN Abort(p, found.err)
                   ELSE IF found.Route = Nil THEN Abort(p, RouteNotFound)
                   ELSE /\ pc' = Upd(pc, p, "deleteSDKRoute")
                        /\ sdkRoute' = Upd(sdkRoute, p, found.Route)
                        /\ UNCHANGED <<result, unmatchedRoutes, matchedRouteAndSDKRouteRefs,
                                       unmatchedSDKRouteRefs, sdkRouteByName>>
    /\ UNCHANGED <<remote, op, routes, sdkVR, sdkRouteRefs, taintedRefs, clean, repeat, retried>>

\* the error deleteSDKRoute returns for the error DeleteRoute answered: the same
deleteSDKRouteErr(apiErr) == apiErr

\* the loop over unmatchedSDKRouteRefs: deleteSDKRoute
deleteSDKRoute(p) ==
    /\ pc[p] = "deleteSDKRoute"
    /\ LET name == Deref(sdkRoute[p]).RouteName
       IN  \E resp \in DeleteRouteResponses(name) :
            /\ Called(p, "DeleteRoute", name, resp.err)
            /\ IF deleteSDKRouteErr(resp.err) # ""
               THEN /\ Abort(p, deleteSDKRouteErr(resp.err))
                    /\ UNCHANGED <<remote, clean>>
               ELSE /\ IF resp.err = ""
                       THEN remote' = [remote EXCEPT ![name] = Nil] /\ Mutated(p)
                       ELSE UNCHANGED <<remote, clean>>
                    /\ Continue(p, op[p], unmatchedRoutes[p],
                                matchedRouteAndSDKRouteRefs[p],
                                Tail(unmatchedSDKRouteRefs[p]), sdkRouteByName[p])
    /\ UNCHANGED <<op, routes, sdkVR, sdkRouteRefs, taintedRefs, repeat, retried>>

\* the error deleteSDKRouteByRef returns for the error DeleteRoute answered: none
\* for a NotFoundException
deleteSDKRouteByRefErr(apiErr) == IF apiErr = NotFoundException THEN "" ELSE apiErr

\* the loop of remove over taintedRefs: deleteSDKRouteByRef
deleteSDKRouteByRef(p) ==
    /\ pc[p] = "deleteSDKRouteByRef"
    /\ LET name == Head(taintedRefs[p]).RouteName
       IN  \E resp \in DeleteRouteResponses(name) :
            /\ Called(p, "DeleteRoute", name, resp.err)
            /\ IF deleteSDKRouteByRefErr(resp.err) # ""
               THEN /\ Return(p, "remove", deleteSDKRouteByRefErr(resp.err), <<>>)
                    /\ UNCHANGED <<remote, clean, taintedRefs>>
               ELSE /\ IF resp.err = ""
                       THEN remote' = [remote EXCEPT ![name] = Nil] /\ Mutated(p)
                       ELSE UNCHANGED <<remote, clean>>
                    /\ taintedRefs' = Upd(taintedRefs, p, Tail(taintedRefs[p]))
                    /\ IF Tail(taintedRefs[p]) = <<>>
                       THEN Return(p, "remove", "", <<>>)
                       ELSE UNCHANGED <<pc, result>>
    /\ UNCHANGED <<op, routes, sdkVR, sdkRouteRefs, unmatchedRoutes,
                   matchedRouteAndSDKRouteRefs, unmatchedSDKRouteRefs, sdkRoute,
                   sdkRouteByName, repeat, retried>>

(***************************************************************************)
(* The callers' inputs and the other actors.                               *)
(***************************************************************************)
\* the routes a caller may put under one name: a TCP route with a match port, an
\* HTTP route with the same match port and an empty list of retry events, and a
\* gRPC route without a match port to a virtual node that is not in vnByKey
RouteChoices(n) ==
    {TCPRouteOf(n, Ref([Port |-> Ref(443)]), "vn-a"),
     HTTPRouteOf(n, Ref(443), RetryPolicyOf(Ref(<<>>)), "vn-a"),
     GRPCRouteOf(n, Nil, Nil, "vn-b")}

\* every vr.Spec.Routes over the choices cs: no name twice, any order
RoutesInputs(cs) ==
    {rs \in UNION {[1..k -> cs] : k \in 0..MaxRoutes} :
        \A i, j \in DOMAIN rs : i # j => rs[i].Name # rs[j].Name}

\* every sdkVR.Spec.Listeners over the protocols ps: no port twice, any order
ListenersInputs(ps) ==
    {ls \in UNION {[1..k -> {ListenerOf(port, proto) : port \in Ports, proto \in ps}] :
                    k \in 0..MaxListeners} :
        \A i, j \in DOMAIN ls : i # j => ls[i].PortMapping.Port # ls[j].PortMapping.Port}

\* every list of route refs: no name twice, any order
RefsInputs(ns) ==
    {Collect(s, [n \in ns |-> RouteRefOf(n)]) : s \in DistinctSeqs(ns, Cardinality(ns))}

\* the specs App Mesh may hold under a name
RemoteSpecs ==
    UNION {StoredSpecs(Deref(BuildSDKRouteSpec(r, vnByKey).spec)) :
            r \in {c \in RouteChoices("r1") : BuildSDKRouteSpec(c, vnByKey).err = ""}}
RemoteValues == {Nil} \cup {Ref(spec) : spec \in RemoteSpecs}

\* somebody else creates, rewrites or deletes a route of the router while a call
\* is under way (between two calls every state of the router is an initial state)
ExternalChange(n, v) ==
    /\ \E p \in Procs : pc[p] \notin {"idle", "done"}
    /\ remote[n] # v
    /\ remote' = [remote EXCEPT ![n] = v]
    /\ clean' = [q \in Procs |-> IF pc[q] = "idle" THEN clean[q] ELSE FALSE]
    /\ UNCHANGED <<op, pc, routes, sdkVR, sdkRouteRefs, unmatchedRoutes,
                   matchedRouteAndSDKRouteRefs, unmatchedSDKRouteRefs, taintedRefs,
                   sdkRoute, sdkRouteByName, result, calls, repeat, retried>>

\* the caller is done with the router as it was: what the last call left behind is gone
Forget(p) ==
    /\ pc[p] = "done"
    /\ op' = Upd(op, p, "none")
    /\ pc' = Upd(pc, p, "idle")
    /\ routes' = Upd(routes, p, <<>>)
    /\ sdkVR' = Upd(sdkVR, p, <<>>)
    /\ sdkRouteRefs' = Upd(sdkRouteRefs, p, <<>>)
    /\ taintedRefs' = Upd(taintedRefs, p, <<>>)
    /\ SetLocals(p, <<>>, <<>>, <<>>, Nil, <<>>)
    /\ result' = Upd(result, p, NoResult)
    /\ calls' = Upd(calls, p, <<>>)
    /\ clean' = Upd(clean, p, TRUE)
    /\ repeat' = Upd(repeat, p, FALSE)
    /\ retried' = Upd(retried, p, FALSE)
    /\ UNCHANGED remote

Idle ==
    /\ op = [p \in Procs |-> "none"]
    /\ pc = [p \in Procs |-> "idle"]
    /\ routes = [p \in Procs |-> <<>>]
    /\ sdkVR = [p \in Procs |-> <<>>]
    /\ sdkRouteRefs = [p \in Procs |-> <<>>]
    /\ unmatchedRoutes = [p \in Procs |-> <<>>]
    /\ matchedRouteAndSDKRouteRefs = [p \in Procs |-> <<>>]
    /\ unmatchedSDKRouteRefs = [p \in Procs |-> <<>>]
    /\ taintedRefs = [p \in Procs |-> <<>>]
    /\ sdkRoute = [p \in Procs |-> Nil]
    /\ sdkRouteByName = [p \in Procs |-> <<>>]
    /\ result = [p \in Procs |-> NoResult]
    /\ calls = [p \in Procs |-> <<>>]
    /\ clean = [p \in Procs |-> TRUE]
    /\ repeat = [p \in Procs |-> FALSE]
    /\ retried = [p \in Procs |-> FALSE]

Init ==
    /\ remote \in [Names -> RemoteValues]
    /\ Idle

\* the inputs of the callers of Spec
SpecRoutes == RoutesInputs(UNION {RouteChoices(n) : n \in Names})
SpecListeners == ListenersInputs({PortProtocolHTTP})

\* one caller at a time, as the controller runs the manager: one worker per router
Next ==
    \/ \E rs \in SpecRoutes : create("p1", rs)
    \/ \E rs \in SpecRoutes : update("p1", rs)
    \/ cleanup("p1")
    \/ \E rs \in SpecRoutes, ls \in SpecListeners : remove("p1", rs, ls)
    \/ listSDKRouteRefs("p1")
    \/ createSDKRoute("p1")
    \/ findSDKRouteMatched("p1")
    \/ updateSDKRoute("p1")
    \/ findSDKRouteUnmatched("p1")
    \/ deleteSDKRoute("p1")
    \/ deleteSDKRouteByRef("p1")
    \/ Forget("p1")
    \/ \E n \in Names, v \in RemoteValues : ExternalChange(n, v)

Spec == Init /\ [][Next]_vars

(***************************************************************************)
(* matchRoutesAgainstSDKRouteRefs and taintedSDKRouteRefs on their own:    *)
(* a caller holds the arguments and applies the function.                  *)
(***************************************************************************)
Holding(at, rss, lss, refss) ==
    /\ remote = [n \in Names |-> Nil]
    /\ op = [p \in Procs |-> "none"]
    /\ pc = [p \in Procs |-> IF p = "p1" THEN at ELSE "idle"]
    /\ routes \in {[p \in Procs |-> IF p = "p1" THEN rs ELSE <<>>] : rs \in rss}
    /\ sdkVR \in {[p \in Procs |-> IF p = "p1" THEN ls ELSE <<>>] : ls \in lss}
    /\ sdkRouteRefs \in {[p \in Procs |-> IF p = "p1" THEN refs ELSE <<>>] : refs \in refss}
    /\ unmatchedRoutes = [p \in Procs |-> <<>>]
    /\ matchedRouteAndSDKRouteRefs = [p \in Procs |-> <<>>]
    /\ unmatchedSDKRouteRefs = [p \in Procs |-> <<>>]
    /\ taintedRefs = [p \in Procs |-> <<>>]
    /\ sdkRoute = [p \in Procs |-> Nil]
    /\ sdkRouteByName = [p \in Procs |-> <<>>]
    /\ result = [p \in Procs |-> NoResult]
    /\ calls = [p \in Procs |-> <<>>]
    /\ clean = [p \in Procs |-> TRUE]
    /\ repeat = [p \in Procs |-> FALSE]
    /\ retried = [p \in Procs |-> FALSE]

\* the first statement of reconcile
Match(p) ==
    /\ pc[p] = "match"
    /\ LET m == matchRoutesAgainstSDKRouteRefs(routes[p], sdkRouteRefs[p])
       IN  /\ matchedRouteAndSDKRouteRefs' = Upd(matchedRouteAndSDKRouteRefs, p,
                                                 m.matchedRouteAndSDKRouteRef)
           /\ unmatchedRoutes' = Upd(unmatchedRoutes, p, m.unmatchedRoutes)
           /\ unmatchedSDKRouteRefs' = Upd(unmatchedSDKRouteRefs, p, m.unmatchedSDKRouteRefs)
    /\ pc' = Upd(pc, p, "matched")
    /\ UNCHANGED <<remote, op, routes, sdkVR, sdkRouteRefs, taintedRefs, sdkRoute,
                   sdkRouteByName, result, calls, clean, repeat, retried>>

InitMatch ==
    Holding("match", RoutesInputs(UNION {RouteChoices(n) : n \in AllNames}), {<<>>},
            RefsInputs(AllNames))
NextMatch == Match("p1")
SpecMatch == InitMatch /\ [][NextMatch]_vars

\* the second statement of remove
Taint(p) ==
    /\ pc[p] = "taint"
    /\ taintedRefs' = Upd(taintedRefs, p,
                          taintedSDKRouteRefs(routes[p], sdkVR[p], sdkRouteRefs[p]))
    /\ pc' = Upd(pc, p, "tainted")
    /\ UNCHANGED <<remote, op, routes, sdkVR, sdkRouteRefs, unmatchedRoutes,
                   matchedRouteAndSDKRouteRefs, unmatchedSDKRouteRefs, sdkRoute,
                   sdkRouteByName, result, calls, clean, repeat, retried>>

\* the routes of one name that the taint check tells apart: each variant with no
\* match port and with each port, and a TCP route with no match at all
TaintChoices(n) ==
    {TCPRouteOf(n, Nil, "vn-a")}
    \cup {TCPRouteOf(n, Ref([Port |-> port]), "vn-a") : port \in {Nil} \cup {Ref(x) : x \in Ports}}
    \cup {GRPCRouteOf(n, port, Nil, "vn-a") : port \in {Nil} \cup {Ref(x) : x \in Ports}}
    \cup {HTTP2RouteOf(n, port, Nil, "vn-a") : port \in {Nil} \cup {Ref(x) : x \in Ports}}
    \cup {HTTPRouteOf(n, port, Nil, "vn-a") : port \in {Nil} \cup {Ref(x) : x \in Ports}}

InitTaint ==
    Holding("taint", RoutesInputs(UNION {TaintChoices(n) : n \in Names}),
            ListenersInputs(Protocols), RefsInputs(Names))
NextTaint == Taint("p1")
SpecTaint == InitTaint /\ [][NextTaint]_vars

(***************************************************************************)
(* The caller that keeps calling update with the same routes, alone on the *)
(* router: the controller requeues a router whose reconcile failed, and    *)
(* every App Mesh call returns.                                            *)
(***************************************************************************)
InitRetry == Init
NextRetry ==
    \/ \E rs \in SpecRoutes : update("p1", rs)
    \/ listSDKRouteRefs("p1")
    \/ createSDKRoute("p1")
    \/ findSDKRouteMatched("p1")
    \/ updateSDKRoute("p1")
    \/ findSDKRouteUnmatched("p1")
    \/ deleteSDKRoute("p1")
SpecRetry == InitRetry /\ [][NextRetry]_vars /\ WF_vars(NextRetry)

(***************************************************************************)
(* Two callers in update on the same router at once, nobody else: the      *)
(* manager is called from two workers with nothing between them.           *)
(***************************************************************************)
\* the routes of the two callers: none, or r1 as a TCP or as an HTTP route
RaceRoutes ==
    RoutesInputs({TCPRouteOf("r1", Ref([Port |-> Ref(443)]), "vn-a"),
                  HTTPRouteOf("r1", Ref(443), RetryPolicyOf(Ref(<<>>)), "vn-a")})
\* the steps of one caller
RaceStep(p) ==
    \/ \E rs \in RaceRoutes : update(p, rs)
    \/ listSDKRouteRefs(p)
    \/ createSDKRoute(p)
    \/ findSDKRouteMatched(p)
    \/ updateSDKRoute(p)
    \/ findSDKRouteUnmatched(p)
    \/ deleteSDKRoute(p)
\* the router holds TCP routes, or none
InitRace ==
    /\ remote \in [Names -> {Nil, Ref(Deref(BuildSDKRouteSpec(
                                TCPRouteOf("r1", Ref([Port |-> Ref(443)]), "vn-a"),
                                vnByKey).spec))}]
    /\ Idle
NextRace == \E p \in Procs : RaceStep(p)
SpecRace == InitRace /\ [][NextRace]_vars

(***************************************************************************)
(* update on a router with the one route r1, alone: the route desired and  *)
(* the route held differ in the variant and in the retry policy (none, one *)
(* without a list of events, with an empty list, with one event).          *)
(***************************************************************************)
RetryPolicies ==
    {Nil, RetryPolicyOf(Nil), RetryPolicyOf(Ref(<<>>)), RetryPolicyOf(Ref(<<"server-error">>))}
CompareChoices(n) ==
    {TCPRouteOf(n, Ref([Port |-> Ref(443)]), "vn-a")}
    \cup {HTTPRouteOf(n, Ref(443), retry, "vn-a") : retry \in RetryPolicies}
CompareRoutes == {<<>>} \cup {<<r>> : r \in CompareChoices("r1")}
InitCompare ==
    /\ remote \in {[n \in Names |-> IF n = "r1" THEN v ELSE Nil] :
                    v \in {Nil} \cup {BuildSDKRouteSpec(r, vnByKey).spec :
                                        r \in CompareChoices("r1")}}
    /\ Idle
NextCompare ==
    \/ \E rs \in CompareRoutes : update("p1", rs)
    \/ listSDKRouteRefs("p1")
    \/ createSDKRoute("p1")
    \/ findSDKRouteMatched("p1")
    \/ updateSDKRoute("p1")
    \/ findSDKRouteUnmatched("p1")
    \/ deleteSDKRoute("p1")
SpecCompare == InitCompare /\ [][NextCompare]_vars

(***************************************************************************)
(* remove on its own, alone on the router: the route r1 in every variant,  *)
(* with and without a match port, against every list of listeners.         *)
(***************************************************************************)
RemoveRoutes == {<<>>} \cup {<<r>> : r \in TaintChoices("r1")}
InitRemove == InitRace
NextRemove ==
    \/ \E rs \in RemoveRoutes, ls \in ListenersInputs(Protocols) : remove("p1", rs, ls)
    \/ listSDKRouteRefs("p1")
    \/ deleteSDKRouteByRef("p1")
SpecRemove == InitRemove /\ [][NextRemove]_vars

(***************************************************************************)
(* Properties.                                                             *)
(***************************************************************************)
Done(p) == pc[p] = "done"
Succeeded(p) == Done(p) /\ result[p].err = ""
Mutating == {"CreateRoute", "UpdateRoute", "DeleteRoute"}
\* the names of the calls of p to api, and the positions of those for name n
CalledNames(p, api) == {calls[p][i].name : i \in {j \in DOMAIN calls[p] : calls[p][j].api = api}}
CallsFor(p, api, n) == {i \in DOMAIN calls[p] : calls[p][i].api = api /\ calls[p][i].name = n}
RouteNames(rs) == {rs[i].Name : i \in DOMAIN rs}
RefNames(refs) == {refs[i].RouteName : i \in DOMAIN refs}
RemoteNames == {n \in Names : remote[n] # Nil}
RouteNamed(rs, n) == rs[CHOOSE i \in DOMAIN rs : rs[i].Name = n]

\* C6: the three outputs of matchRoutesAgainstSDKRouteRefs are pairwise disjoint by
\* name, cover names(D) union names(O), and are: matched = the intersection,
\* desired-only = names(D) minus names(O), observed-only = names(O) minus names(D);
\* each output lists a name once, with the route and the ref given under that name
C6_MatchingPartition ==
    \A p \in Procs : pc[p] = "matched" =>
        LET D == RouteNames(routes[p])
            O == RefNames(sdkRouteRefs[p])
            mt == matchedRouteAndSDKRouteRefs[p]
            M == {mt[i].route.Name : i \in DOMAIN mt}
            DO == RouteNames(unmatchedRoutes[p])
            OO == RefNames(unmatchedSDKRouteRefs[p])
        IN  /\ M \cap DO = {} /\ M \cap OO = {} /\ DO \cap OO = {}
            /\ M \cup DO \cup OO = D \cup O
            /\ M = D \cap O
            /\ DO = D \ O
            /\ OO = O \ D
            /\ Len(mt) = Cardinality(M)
            /\ Len(unmatchedRoutes[p]) = Cardinality(DO)
            /\ Len(unmatchedSDKRouteRefs[p]) = Cardinality(OO)
            /\ \A i \in DOMAIN mt :
                /\ mt[i].route = RouteNamed(routes[p], mt[i].route.Name)
                /\ mt[i].sdkRouteRef.RouteName = mt[i].route.Name
            /\ \A i \in DOMAIN unmatchedRoutes[p] :
                unmatchedRoutes[p][i] \in Range(routes[p])

\* C6 happens: a call with a matched pair, a desired-only route and an observed-only ref
C6_Witness ==
    /\ pc["p1"] = "matched"
    /\ matchedRouteAndSDKRouteRefs["p1"] # <<>>
    /\ unmatchedRoutes["p1"] # <<>>
    /\ unmatchedSDKRouteRefs["p1"] # <<>>

\* the match port a route declares (Nil if none) and the protocol of its variant
DeclaredPort(route) ==
    IF route.TCPRoute # Nil
    THEN IF Deref(route.TCPRoute).Match = Nil THEN Nil
         ELSE Deref(Deref(route.TCPRoute).Match).Port
    ELSE IF route.GRPCRoute # Nil THEN Deref(route.GRPCRoute).Match.Port
    ELSE IF route.HTTP2Route # Nil THEN Deref(route.HTTP2Route).Match.Port
    ELSE IF route.HTTPRoute # Nil THEN Deref(route.HTTPRoute).Match.Port
    ELSE Nil
VariantProtocol(route) ==
    IF route.TCPRoute # Nil THEN "tcp"
    ELSE IF route.GRPCRoute # Nil THEN "grpc"
    ELSE IF route.HTTP2Route # Nil THEN "http2"
    ELSE "http"
\* the protocols of the listeners bound to a port
BoundProtocols(listeners, port) ==
    {listeners[i].PortMapping.Protocol :
        i \in {j \in DOMAIN listeners : listeners[j].PortMapping.Port = port}}

\* C7: a matched route with a match port that a listener is bound to is in the taint
\* set exactly when the listener's protocol differs from the protocol of the route's
\* variant; a matched route without a match port is never in the taint set
C7_TaintCorrectness ==
    \A p \in Procs : pc[p] = "tainted" =>
        \A n \in RouteNames(routes[p]) \cap RefNames(sdkRouteRefs[p]) :
            LET route == RouteNamed(routes[p], n)
                port == DeclaredPort(route)
                tainted == n \in RefNames(taintedRefs[p])
            IN  /\ port = Nil => ~tainted
                /\ port # Nil =>
                    \A proto \in BoundProtocols(sdkVR[p], Deref(port)) :
                        tainted <=> proto # VariantProtocol(route)

\* C7 happens: of two matched routes with a bound match port one is tainted and the
\* other is not
C7_Witness ==
    /\ pc["p1"] = "tainted"
    /\ \E n, m \in RouteNames(routes["p1"]) \cap RefNames(sdkRouteRefs["p1"]) :
        /\ DeclaredPort(RouteNamed(routes["p1"], n)) # Nil
        /\ DeclaredPort(RouteNamed(routes["p1"], m)) # Nil
        /\ BoundProtocols(sdkVR["p1"], Deref(DeclaredPort(RouteNamed(routes["p1"], n)))) # {}
        /\ BoundProtocols(sdkVR["p1"], Deref(DeclaredPort(RouteNamed(routes["p1"], m)))) # {}
        /\ n \in RefNames(taintedRefs["p1"])
        /\ m \notin RefNames(taintedRefs["p1"])


\* the spec of the route named n of rs, as BuildSDKRouteSpec builds it
DesiredSpec(rs, n) == BuildSDKRouteSpec(RouteNamed(rs, n), vnByKey)

\* C1: when update returns without error and nobody else changed the router during
\* the call, the router holds exactly the desired route names, each with a spec
\* equal (an empty list being an absent one) to the spec built from the desired route
C1_UpdateConverges ==
    \A p \in Procs : (op[p] = "update" /\ Succeeded(p) /\ clean[p]) =>
        /\ RemoteNames = RouteNames(routes[p])
        /\ \A n \in RouteNames(routes[p]) :
            /\ DesiredSpec(routes[p], n).err = ""
            /\ remote[n] # Nil
            /\ EqualRouteSpec(Deref(DesiredSpec(routes[p], n).spec), Deref(remote[n]),
                              TRUE)

\* C1 happens: an undisturbed update that created one route and rewrote another returned
C1_Witness ==
    /\ op["p1"] = "update" /\ Succeeded("p1") /\ clean["p1"]
    /\ CalledNames("p1", "CreateRoute") # {}
    /\ CalledNames("p1", "UpdateRoute") # {}

\* C2: an update that succeeds, called again with the same routes and with no change
\* by anybody else since the first call began, makes no create, update or delete call
C2_UpdateIdempotent ==
    \A p \in Procs : (op[p] = "update" /\ Succeeded(p) /\ repeat[p] /\ clean[p]) =>
        \A i \in DOMAIN calls[p] : calls[p][i].api \notin Mutating

\* C2 happens: the second update described a route whose stored spec is not the
\* built spec literally (the service left the empty list out) and returned
C2_Witness ==
    /\ op["p1"] = "update" /\ Succeeded("p1") /\ repeat["p1"] /\ clean["p1"]
    /\ \E n \in CalledNames("p1", "DescribeRoute") :
        /\ remote[n] # Nil
        /\ Deref(remote[n]) # Deref(DesiredSpec(routes["p1"], n).spec)

\* C3 as claimed: a DeleteRoute call of update, cleanup or remove that is answered
\* NotFoundException never makes the method return an error
C3_DeleteNotFoundIsNoOp ==
    \A p \in Procs :
        (/\ Done(p)
         /\ calls[p] # <<>>
         /\ calls[p][Len(calls[p])].api = "DeleteRoute"
         /\ calls[p][Len(calls[p])].err = NotFoundException)
        => result[p].err = ""

\* C4 as claimed: a cleanup whose calls fail only because a listed route is gone
\* returns success and has deleted every other listed route
C4_CleanupSurvivesRace ==
    \A p \in Procs :
        (/\ op[p] = "cleanup"
         /\ Done(p)
         /\ \A i \in DOMAIN calls[p] : calls[p][i].err # RemoteErr)
        => /\ result[p].err = ""
           /\ \A n \in RefNames(sdkRouteRefs[p]) :
                \/ \E i \in CallsFor(p, "DeleteRoute", n) : calls[p][i].err = ""
                \/ \E i \in DOMAIN calls[p] :
                    calls[p][i].name = n /\ calls[p][i].err = NotFoundException

\* C5: when cleanup returns without error and nobody else changed the router, it
\* made one DeleteRoute call for each listed name, no CreateRoute and no UpdateRoute
\* call, and the router holds no route
C5_CleanupDeletesAll ==
    \A p \in Procs : (op[p] = "cleanup" /\ Succeeded(p) /\ clean[p]) =>
        /\ CalledNames(p, "DeleteRoute") = RefNames(sdkRouteRefs[p])
        /\ \A n \in RefNames(sdkRouteRefs[p]) : Cardinality(CallsFor(p, "DeleteRoute", n)) = 1
        /\ CalledNames(p, "CreateRoute") = {}
        /\ CalledNames(p, "UpdateRoute") = {}
        /\ RemoteNames = {}

\* C5 happens: an undisturbed cleanup of a router with two routes returned
C5_Witness ==
    /\ op["p1"] = "cleanup" /\ Succeeded("p1") /\ clean["p1"]
    /\ Len(sdkRouteRefs["p1"]) = 2

\* the names remove has to delete: the listed names without a desired route, and
\* the matched names whose match port and protocol conflict with the listeners
\* given: the port is bound to another protocol, or to no listener at all
ExpectedTaint(rs, listeners, refs) ==
    (RefNames(refs) \ RouteNames(rs))
    \cup {n \in RefNames(refs) \cap RouteNames(rs) :
            /\ DeclaredPort(RouteNamed(rs, n)) # Nil
            /\ VariantProtocol(RouteNamed(rs, n))
                \notin BoundProtocols(listeners, Deref(DeclaredPort(RouteNamed(rs, n))))}

\* C8: a remove that returns without error made DeleteRoute calls for exactly the
\* names it has to delete, one each, and no other call but the listing; undisturbed,
\* every other listed route is still there
C8_RemoveDeletesTaintSet ==
    \A p \in Procs : (op[p] = "remove" /\ Succeeded(p)) =>
        LET expected == ExpectedTaint(routes[p], sdkVR[p], sdkRouteRefs[p])
        IN  /\ CalledNames(p, "DeleteRoute") = expected
            /\ \A n \in expected : Cardinality(CallsFor(p, "DeleteRoute", n)) = 1
            /\ \A i \in DOMAIN calls[p] : calls[p][i].api \in {"ListRoutes", "DeleteRoute"}
            /\ clean[p] => RemoteNames = RefNames(sdkRouteRefs[p]) \ expected

\* C8 happens: an undisturbed remove deleted a matched route whose TCP match port is
\* bound to an HTTP listener and left a matched route alone
C8_Witness ==
    /\ op["p1"] = "remove" /\ Succeeded("p1") /\ clean["p1"]
    /\ \E n, m \in RouteNames(routes["p1"]) \cap RefNames(sdkRouteRefs["p1"]) :
        /\ RouteNamed(routes["p1"], n).TCPRoute # Nil
        /\ BoundProtocols(sdkVR["p1"], Deref(DeclaredPort(RouteNamed(routes["p1"], n))))
            = {PortProtocolHTTP}
        /\ n \in CalledNames("p1", "DeleteRoute")
        /\ remote[n] = Nil
        /\ m \notin CalledNames("p1", "DeleteRoute")
        /\ remote[m] # Nil

\* C9: in update, once DescribeRoute reports a matched route missing, update has
\* returned an error without a map, that call is its last call, and it made no
\* CreateRoute and no UpdateRoute call for the name
C9_MissingMatchedIsFatal ==
    \A p \in Procs : op[p] = "update" =>
        \A i \in DOMAIN calls[p] :
            (/\ calls[p][i].api = "DescribeRoute"
             /\ calls[p][i].err = NotFoundException
             /\ calls[p][i].name \in RouteNames(routes[p]))
            => /\ Done(p)
               /\ result[p].err # ""
               /\ result[p].routes = Nil
               /\ i = Len(calls[p])
               /\ CallsFor(p, "CreateRoute", calls[p][i].name) = {}
               /\ CallsFor(p, "UpdateRoute", calls[p][i].name) = {}

\* C9 happens: an update created one route and then found a matched route missing
C9_Witness ==
    /\ op["p1"] = "update"
    /\ CalledNames("p1", "CreateRoute") # {}
    /\ \E i \in DOMAIN calls["p1"] :
        /\ calls["p1"][i].api = "DescribeRoute"
        /\ calls["p1"][i].err = NotFoundException
        /\ calls["p1"][i].name \in RouteNames(routes["p1"])

\* a call that failed the method: any error but the NotFoundException remove swallows
FailedCall(p, c) ==
    /\ c.err # ""
    /\ ~(op[p] = "remove" /\ c.api = "DeleteRoute" /\ c.err = NotFoundException)
\* the error a method returns for its failed call
ErrorOf(c) ==
    IF c.api = "DescribeRoute" /\ c.err = NotFoundException THEN RouteNotFound ELSE c.err

\* C10: a method that returned an error returned no map; no call before its last one
\* failed; its last call is the failed one and gave the error (or no call failed and
\* a spec could not be built); and, undisturbed, what the calls before did is still
\* in place: the created and updated routes exist with the spec built, the deleted
\* ones are gone
C10_AbortWithoutRollback ==
    \A p \in Procs : (Done(p) /\ result[p].err # "") =>
        LET n == Len(calls[p])
        IN  /\ result[p].routes = Nil
            /\ \A i \in 1..(n - 1) : ~FailedCall(p, calls[p][i])
            /\ IF result[p].err = "ConversionError"
               THEN n = 0 \/ ~FailedCall(p, calls[p][n])
               ELSE /\ n > 0
                    /\ FailedCall(p, calls[p][n])
                    /\ result[p].err = ErrorOf(calls[p][n])
            /\ clean[p] =>
                \A i \in DOMAIN calls[p] :
                    LET c == calls[p][i]
                    IN  /\ (c.api \in {"CreateRoute", "UpdateRoute"} /\ c.err = "") =>
                            /\ remote[c.name] # Nil
                            /\ EqualRouteSpec(Deref(DesiredSpec(routes[p], c.name).spec),
                                              Deref(remote[c.name]), TRUE)
                        /\ (c.api = "DeleteRoute" /\ c.err = "") => remote[c.name] = Nil

\* C10 happens: an undisturbed method changed a route and then failed
C10_Witness ==
    /\ Done("p1") /\ result["p1"].err # "" /\ clean["p1"]
    /\ \E i \in DOMAIN calls["p1"] :
        calls["p1"][i].api \in Mutating /\ calls["p1"][i].err = ""

\* every route of rs has a spec BuildSDKRouteSpec can build
Buildable(rs) == \A i \in DOMAIN rs : BuildSDKRouteSpec(rs[i], vnByKey).err = ""
\* the router holds exactly the routes of rs, each with the spec built from it
Matches(rs) ==
    /\ RemoteNames = RouteNames(rs)
    /\ \A n \in RouteNames(rs) :
        /\ remote[n] # Nil
        /\ EqualRouteSpec(Deref(DesiredSpec(rs, n).spec), Deref(remote[n]), TRUE)
\* update returned an error after it changed the router
FailedPartWay(p) ==
    /\ op[p] = "update" /\ Done(p) /\ result[p].err # ""
    /\ \E i \in DOMAIN calls[p] : calls[p][i].api \in Mutating /\ calls[p][i].err = ""
\* the step is an App Mesh call of p that fails for a reason of the service
RemoteCallFails(p) ==
    /\ Len(calls'[p]) = Len(calls[p]) + 1
    /\ calls'[p][Len(calls'[p])].err = RemoteErr

C12_CreateWithoutListing ==
    \A p \in Procs : op[p] = "create" =>
        LET n == Len(calls[p])
            desired == List(RouteNames(routes[p]))
        IN  /\ \A i \in 1..n : calls[p][i].api = "CreateRoute"
            /\ n <= Len(desired)
            /\ \A i \in 1..n : calls[p][i].name = desired[i]
            /\ \A i \in 1..(n - 1) : calls[p][i].err = ""
            /\ (n > 0 /\ calls[p][n].err # "") =>
                /\ Done(p)
                /\ result[p].err = calls[p][n].err
                /\ result[p].routes = Nil
            /\ Succeeded(p) =>
                /\ n = Len(desired)
                /\ \A i \in 1..n : calls[p][i].err = ""

\* C12 happens: a create of two routes found the first one existing and returned
\* the conflict after that one call
C12_Witness ==
    /\ op["p1"] = "create" /\ Done("p1")
    /\ Len(routes["p1"]) = 2
    /\ Len(calls["p1"]) = 1
    /\ result["p1"].err = ConflictException

\* C13: nothing in the manager holds back a caller for another: whatever the other
\* caller is doing, a caller can enter update and can take the next step of the
\* update it is in
C13_NoSerialization == \A p \in Procs : ENABLED RaceStep(p)

\* C13 happens, duplicate create: two updates under way listed the same routes, one
\* created a route of neither listing, and the CreateRoute call of the other for
\* the same name was answered ConflictException
C13_Witness ==
    /\ op["p1"] = "update" /\ op["p2"] = "update"
    /\ Len(calls["p1"]) > 1 /\ Len(calls["p2"]) > 1
    /\ sdkRouteRefs["p1"] = sdkRouteRefs["p2"]
    /\ \E n \in Names \ RefNames(sdkRouteRefs["p1"]) :
        /\ \E i \in CallsFor("p1", "CreateRoute", n) : calls["p1"][i].err = ""
        /\ \E i \in CallsFor("p2", "CreateRoute", n) :
            calls["p2"][i].err = ConflictException

\* C13 happens, lost update: two updates under way listed the same routes, both
\* rewrote the same route, each with its own spec, and the one that wrote first
\* returned without error a record the router no longer holds
C13_LostUpdate ==
    /\ op["p1"] = "update" /\ op["p2"] = "update"
    /\ sdkRouteRefs["p1"] = sdkRouteRefs["p2"]
    /\ Succeeded("p1")
    /\ \E n \in RefNames(sdkRouteRefs["p1"]) :
        /\ \E i \in CallsFor("p1", "UpdateRoute", n) : calls["p1"][i].err = ""
        /\ \E i \in CallsFor("p2", "UpdateRoute", n) : calls["p2"][i].err = ""
        /\ remote[n] # Nil
        /\ Deref(result["p1"].routes)[n].Spec # Deref(remote[n])
        /\ ~EqualRouteSpec(Deref(DesiredSpec(routes["p1"], n).spec), Deref(remote[n]), TRUE)

\* a spec with every empty list of retry events taken as no list
NormalSpec(spec) ==
    [spec EXCEPT !.GrpcRoute = omitEmpty(@), !.HttpRoute = omitEmpty(@),
                 !.Http2Route = omitEmpty(@)]
\* the two specs are the same but for empty lists against absent ones
SameSpec(x, y) == NormalSpec(x) = NormalSpec(y)
\* the step appends a call of p to api for name n; its answer
Calls(p, api, n) ==
    /\ Len(calls'[p]) = Len(calls[p]) + 1
    /\ calls'[p][Len(calls'[p])].api = api
    /\ calls'[p][Len(calls'[p])].name = n
Answer(p) == calls'[p][Len(calls'[p])].err

\* C14: in update, with nobody else on the router: when DescribeRoute answers with
\* the record of a matched route, an UpdateRoute call for the route comes next if
\* and only if the spec built from the desired route and the spec of the record are
\* not the same but for empty lists against absent ones; no UpdateRoute call is made
\* from anywhere else; and an UpdateRoute call that succeeds leaves the route with
\* the spec built
C14_UpdateOnlyOnDifference ==
    [][\A p \in Procs : op[p] = "update" =>
        /\ \A n \in Names :
            (/\ pc[p] = "findSDKRouteMatched"
             /\ Calls(p, "DescribeRoute", n) /\ Answer(p) = "") =>
                LET desired == Deref(BuildSDKRouteSpec(
                                        Head(matchedRouteAndSDKRouteRefs[p]).route,
                                        vnByKey).spec)
                IN  /\ pc'[p] = "updateSDKRoute" <=> ~SameSpec(desired, Deref(remote[n]))
                    /\ SameSpec(desired, Deref(remote[n])) =>
                        /\ remote' = remote
                        /\ n \in DOMAIN sdkRouteByName'[p]
                        /\ sdkRouteByName'[p][n].Spec = Deref(remote[n])
        /\ \A n \in Names :
            Calls(p, "UpdateRoute", n) =>
                /\ pc[p] = "updateSDKRoute"
                /\ Answer(p) = "" =>
                    SameSpec(Deref(DesiredSpec(routes[p], n).spec), Deref(remote'[n]))
        /\ pc[p] = "updateSDKRoute" =>
                Calls(p, "UpdateRoute", Head(matchedRouteAndSDKRouteRefs[p]).route.Name)
      ]_vars

\* C14 happens: an update of a route desired with an empty list of retry events and
\* held with no list of events returned without error and without an UpdateRoute call
C14_Witness ==
    /\ op["p1"] = "update" /\ Succeeded("p1")
    /\ routes["p1"] = <<HTTPRouteOf("r1", Ref(443), RetryPolicyOf(Ref(<<>>)), "vn-a")>>
    /\ remote["r1"] # Nil
    /\ Deref(Deref(Deref(remote["r1"]).HttpRoute).RetryPolicy).HTTPRetryEvents = Nil
    /\ CallsFor("p1", "DescribeRoute", "r1") # {}
    /\ CallsFor("p1", "UpdateRoute", "r1") = {}

\* the batch of reconcile a call of p belongs to: 1 the creates, 2 the describes
\* and updates of the matched routes, 3 the describes and deletes of the refs
\* without a route; 0 for the listing before them
Batch(p, c) ==
    IF c.api = "ListRoutes" THEN 0
    ELSE IF c.api = "CreateRoute" THEN 1
    ELSE IF c.api = "UpdateRoute" THEN 2
    ELSE IF c.api = "DescribeRoute" /\ c.name \in RouteNames(routes[p]) THEN 2
    ELSE 3

\* C15: the calls of an update come batch after batch: the listing, then every
\* CreateRoute, then every DescribeRoute and UpdateRoute of a matched route, then
\* every DescribeRoute and DeleteRoute of a ref without a route; each call is
\* answered before the next is made, and only the last one may have failed
C15_BatchOrdering ==
    \A p \in Procs : op[p] = "update" =>
        /\ \A i, j \in DOMAIN calls[p] :
            i < j => Batch(p, calls[p][i]) <= Batch(p, calls[p][j])
        /\ \A i \in 1..(Len(calls[p]) - 1) : calls[p][i].err = ""
        /\ pc[p] = "createSDKRoute" =>
            \A i \in DOMAIN calls[p] : Batch(p, calls[p][i]) <= 1
        /\ pc[p] \in {"findSDKRouteMatched", "updateSDKRoute"} =>
            /\ unmatchedRoutes[p] = <<>>
            /\ \A i \in DOMAIN calls[p] : Batch(p, calls[p][i]) <= 2
        /\ pc[p] \in {"findSDKRouteUnmatched", "deleteSDKRoute"} =>
            unmatchedRoutes[p] = <<>> /\ matchedRouteAndSDKRouteRefs[p] = <<>>

\* C15 happens: an update created a route and then deleted another
C15_Witness ==
    /\ op["p1"] = "update" /\ Succeeded("p1")
    /\ \E i, j \in DOMAIN calls["p1"] :
        /\ i < j
        /\ calls["p1"][i].api = "CreateRoute"
        /\ calls["p1"][j].api = "DeleteRoute"

\* the positions of the CreateRoute, UpdateRoute and DeleteRoute calls of p for n
MutatingCallsFor(p, n) ==
    {i \in DOMAIN calls[p] : calls[p][i].api \in Mutating /\ calls[p][i].name = n}

\* C16: in update, CreateRoute is called only for names desired and not listed,
\* UpdateRoute only for names desired and listed, DeleteRoute only for names listed
\* and not desired, and no name gets more than one of these calls; so a route
\* whose name is on one side only is never updated, whatever it holds
C16_NameKeyedDispatch ==
    \A p \in Procs : op[p] = "update" =>
        LET D == RouteNames(routes[p])
            O == RefNames(sdkRouteRefs[p])
        IN  /\ CalledNames(p, "CreateRoute") \subseteq D \ O
            /\ CalledNames(p, "UpdateRoute") \subseteq D \cap O
            /\ CalledNames(p, "DeleteRoute") \subseteq O \ D
            /\ \A n \in Names : Cardinality(MutatingCallsFor(p, n)) <= 1

\* C16 happens: the router holds under one name just the spec desired under another;
\* an update has created the desired name and described the other, which it is
\* about to delete, with no UpdateRoute call
C16_Witness ==
    /\ op["p1"] = "update" /\ pc["p1"] = "deleteSDKRoute" /\ clean["p1"]
    /\ \E n, m \in Names :
        /\ n # m
        /\ RouteNames(routes["p1"]) = {n}
        /\ RefNames(sdkRouteRefs["p1"]) = {m}
        /\ \E i \in CallsFor("p1", "CreateRoute", n) : calls["p1"][i].err = ""
        /\ Deref(sdkRoute["p1"]).RouteName = m
        /\ Deref(sdkRoute["p1"]).Spec = Deref(DesiredSpec(routes["p1"], n).spec)
        /\ remote[n] = remote[m]
    /\ CalledNames("p1", "UpdateRoute") = {}

\* C17: in create and update, a CreateRoute or UpdateRoute call that succeeds puts
\* the record it returned (the route as the router now holds it) in the map under
\* the route's name; a DescribeRoute call for a matched route that needs no update
\* puts the record described there; every other entry stays as it is; and when the
\* method returns without error it returns that map, whose keys are exactly the
\* names of the desired routes
C17_ReturnedMapping ==
    [][\A p \in Procs : op'[p] \in {"create", "update"} =>
        /\ \A n \in Names :
            /\ (Calls(p, "CreateRoute", n) /\ Answer(p) = "") =>
                /\ n \in DOMAIN sdkRouteByName'[p]
                /\ sdkRouteByName'[p][n] = RouteDataOf(n, Deref(remote'[n]))
            /\ (Calls(p, "UpdateRoute", n) /\ Answer(p) = "") =>
                /\ n \in DOMAIN sdkRouteByName'[p]
                /\ sdkRouteByName'[p][n] = RouteDataOf(n, Deref(remote'[n]))
            /\ (/\ Calls(p, "DescribeRoute", n) /\ Answer(p) = ""
                /\ n \in RouteNames(routes[p])
                /\ pc'[p] \notin {"updateSDKRoute", "done"} \/ Succeeded(p)') =>
                /\ n \in DOMAIN sdkRouteByName'[p]
                /\ sdkRouteByName'[p][n] = RouteDataOf(n, Deref(remote[n]))
            /\ (/\ Len(calls'[p]) = Len(calls[p]) + 1
                /\ n \in DOMAIN sdkRouteByName[p]
                /\ ~Calls(p, "CreateRoute", n) /\ ~Calls(p, "UpdateRoute", n)
                /\ ~Calls(p, "DescribeRoute", n)) =>
                /\ n \in DOMAIN sdkRouteByName'[p]
                /\ sdkRouteByName'[p][n] = sdkRouteByName[p][n]
            /\ (n \in DOMAIN sdkRouteByName'[p] /\ Len(calls'[p]) = Len(calls[p]) + 1) =>
                \/ n \in DOMAIN sdkRouteByName[p]
                \/ Calls(p, "CreateRoute", n) \/ Calls(p, "UpdateRoute", n)
                \/ Calls(p, "DescribeRoute", n) /\ n \in RouteNames(routes[p])
        /\ Succeeded(p)' =>
            /\ result'[p].routes = Ref(sdkRouteByName'[p])
            /\ DOMAIN sdkRouteByName'[p] = RouteNames(routes'[p])
      ]_vars

\* C17 happens: an update of two desired routes rewrote one, found the other as
\* desired, and returned the map of the two
C17_Witness ==
    /\ op["p1"] = "update" /\ Succeeded("p1")
    /\ Len(routes["p1"]) = 2
    /\ DOMAIN Deref(result["p1"].routes) = RouteNames(routes["p1"])
    /\ \E n, m \in RouteNames(routes["p1"]) :
        /\ CallsFor("p1", "UpdateRoute", n) # {}
        /\ CallsFor("p1", "DescribeRoute", m) # {}
        /\ CallsFor("p1", "UpdateRoute", m) = {}

\* the listed routes of p that are desired with a match port no listener is bound to
UnboundMatched(p) ==
    {n \in RouteNames(routes[p]) \cap RefNames(sdkRouteRefs[p]) :
        /\ DeclaredPort(RouteNamed(routes[p], n)) # Nil
        /\ BoundProtocols(sdkVR[p], Deref(DeclaredPort(RouteNamed(routes[p], n)))) = {}}

\* C18: in remove, with nobody else on the router: a listed route that is desired
\* with a match port to which no listener is bound is among the refs remove has
\* deleted or has still to delete; when remove returns without error it has made
\* a DeleteRoute call for the route and the route is gone
C18_TaintWithoutListener ==
    \A p \in Procs : op[p] = "remove" =>
        \A n \in UnboundMatched(p) :
            /\ n \in RefNames(taintedRefs[p]) \cup CalledNames(p, "DeleteRoute")
               \/ (Done(p) /\ result[p].err # "")
            /\ Succeeded(p) =>
                /\ Cardinality(CallsFor(p, "DeleteRoute", n)) = 1
                /\ remote[n] = Nil

\* C18 happens: a remove with a listener bound to port 80 only deleted the listed
\* gRPC route desired with the match port 443
C18_Witness ==
    /\ op["p1"] = "remove" /\ Succeeded("p1")
    /\ sdkVR["p1"] # <<>>
    /\ \E n \in UnboundMatched("p1") :
        /\ RouteNamed(routes["p1"], n).GRPCRoute # Nil
        /\ \E i \in CallsFor("p1", "DeleteRoute", n) : calls["p1"][i].err = ""
        /\ remote[n] = Nil

\* C19: in update and cleanup, once DescribeRoute reports missing a listed route
\* that has no desired route, the method has returned 'route not found' without a
\* map, that call is its last call, and neither the route nor any ref the loop had
\* not reached got a DeleteRoute call
C19_MissingUnmatchedIsFatal ==
    \A p \in Procs : op[p] \in {"update", "cleanup"} =>
        \A i \in DOMAIN calls[p] :
            (/\ calls[p][i].api = "DescribeRoute"
             /\ calls[p][i].err = NotFoundException
             /\ calls[p][i].name \notin RouteNames(routes[p]))
            => /\ Done(p)
               /\ result[p].err = RouteNotFound
               /\ result[p].routes = Nil
               /\ i = Len(calls[p])
               /\ unmatchedSDKRouteRefs[p] # <<>>
               /\ Head(unmatchedSDKRouteRefs[p]).RouteName = calls[p][i].name
               /\ \A n \in RefNames(unmatchedSDKRouteRefs[p]) :
                    CallsFor(p, "DeleteRoute", n) = {}

\* C19 happens: a cleanup listed two routes, found the first one missing and
\* returned, the second one still there
C19_Witness ==
    /\ op["p1"] = "cleanup" /\ Done("p1")
    /\ result["p1"].err = RouteNotFound
    /\ Len(sdkRouteRefs["p1"]) = 2
    /\ Len(unmatchedSDKRouteRefs["p1"]) = 2
    /\ remote[unmatchedSDKRouteRefs["p1"][1].RouteName] = Nil
    /\ remote[unmatchedSDKRouteRefs["p1"][2].RouteName] # Nil
    /\ calls["p1"][Len(calls["p1"])].api = "DescribeRoute"
    /\ calls["p1"][Len(calls["p1"])].err = NotFoundException

====
